---- MODULE Spec2Model ----
(***************************************************************************)
(* A model of the news aggregation pipeline of news_scraper_hybrid.py:     *)
(* HybridNewsScraper.__init__, scrape_news (both adapters, deduplication,  *)
(* categorization), generate_markdown_report and run, and of the output    *)
(* directory over successive invocations of main; of run_daily_task of     *)
(* daily_news_task.py, which mails the report; and of CronTaskManager of   *)
(* cron_manager.py, which registers the task in the user's crontab.        *)
(*                                                                         *)
(* A Python string is a sequence of one-character strings.  A Python value *)
(* that may be a string, None or an absent dict key is a record [t, v].    *)
(* A Python dict is the sequence of its entries in insertion order.        *)
(***************************************************************************)
EXTENDS Integers, Sequences, FiniteSets, TLC

VARIABLES
    cfg,              \* the content of config.json, and whether it can be read
    env,              \* what the providers answer, and the date and disk of each run
    run,              \* the number of the current invocation of main
    files,            \* the report files of the output directory
    outcomes,         \* what each finished invocation gave its caller
    pc,               \* position of the caller: new, ready, scraped, done, failed
    sent,             \* the report paths the daily task gave the email sender
    exit_code,        \* what the daily task returned, once it has returned
    crontab,          \* the user's crontab as persisted: a sequence of jobs
    cron,             \* the crontab as the manager instance holds it in memory
    cron_calls,       \* the number of manager calls made so far
    last_call,        \* the latest manager call: its arguments, result, and the
                      \* crontab before it
    error,            \* the exception that ended the run, or "none"
    raised_in,        \* the function that raised it, or "none"
    keywords,         \* self.keywords
    use_newsapi,      \* self.use_newsapi
    newsapi,          \* self.newsapi is not None
    use_newspaper,    \* self.use_newspaper
    newspaper,        \* self.newspaper is not None
    use_deepseek,     \* self.use_deepseek
    deepseek,         \* self.deepseek is not None
    all_articles,     \* scrape_news: all_articles after both adapters
    unique_articles,  \* scrape_news: unique_articles after the dedup loop
    seen_urls,        \* scrape_news: seen_urls after the dedup loop
    categorized_news, \* the dict scrape_news returns
    fetch_log,        \* the provider calls of the current scrape_news, in order
    scrapes,          \* number of scrape_news invocations on this instance
    earlier,          \* what the previous scrape_news of this instance returned
    summary_calls,    \* number of summarizer invocations in this run
    report            \* the report this run wrote to its file, or NoReport

vars == <<cfg, env, run, files, outcomes, pc, sent, exit_code, error, raised_in, keywords, use_newsapi, newsapi, use_newspaper,
          newspaper, use_deepseek, deepseek, all_articles, unique_articles,
          seen_urls, categorized_news, fetch_log, scrapes, earlier, summary_calls,
          report, crontab, cron, cron_calls, last_call>>

\* the state of the scheduling side
cron_vars == <<crontab, cron, cron_calls, last_call>>

\* the state of the scraping side
scraper_vars ==
    <<cfg, env, run, files, outcomes, pc, sent, exit_code, error, raised_in, keywords,
      use_newsapi, newsapi, use_newspaper, newspaper, use_deepseek, deepseek,
      all_articles, unique_articles, seen_urls, categorized_news, fetch_log, scrapes,
      earlier, summary_calls, report>>

-----------------------------------------------------------------------------
(* Python values *)

Str(s) == [t |-> "str", v |-> s]
PyNone == [t |-> "none", v |-> <<>>]
Absent == [t |-> "absent", v |-> <<>>]
PyList(s) == [t |-> "list", v |-> s]
PyDict(s) == [t |-> "dict", v |-> s]

\* dict.get(key, default)
Get(x, default) == IF x.t = "absent" THEN default ELSE x

\* bool(x) of a string or None
Truthy(x) == x.t = "str" /\ x.v # <<>>

\* "{x}" inside an f-string
Format(x) == IF x.t = "none" THEN <<"N", "o", "n", "e">> ELSE x.v

LowerChar(c) ==
    CASE c = "X" -> "x"
      [] c = "Y" -> "y"
      [] c = "N" -> "n"
      [] OTHER -> c

\* str.lower()
Lower(s) == [i \in 1..Len(s) |-> LowerChar(s[i])]

\* kw in text
Contains(kw, text) ==
    \E i \in 0..(Len(text) - Len(kw)) : SubSeq(text, i + 1, i + Len(kw)) = kw

\* s[:n]
Take(s, n) == SubSeq(s, 1, IF Len(s) < n THEN Len(s) ELSE n)

\* str.strip() over the one whitespace character of the alphabet
RECURSIVE LStrip(_)
LStrip(s) == IF s # <<>> /\ Head(s) = " " THEN LStrip(Tail(s)) ELSE s

RECURSIVE RStrip(_)
RStrip(s) ==
    IF s # <<>> /\ s[Len(s)] = " " THEN RStrip(SubSeq(s, 1, Len(s) - 1)) ELSE s

Strip(s) == RStrip(LStrip(s))

RECURSIVE Flatten(_)
Flatten(ss) == IF ss = <<>> THEN <<>> ELSE Head(ss) \o Flatten(Tail(ss))

Range(s) == {s[i] : i \in 1..Len(s)}

SeqsUpTo(S, n) == UNION {[1..k -> S] : k \in 0..n}

-----------------------------------------------------------------------------
(* Program constants *)

\* the fallback category name (the literal at news_scraper_hybrid.py:427, written in ASCII)
Fallback == "Other"
DefaultMaxArticles == 50
SearchKeywordCap == 3
DigestCap == 10
SnippetCap == 150
DateLen == 10
\* the sentinel date (the literal at news_scraper_hybrid.py:459, one symbol here)
UnknownDate == <<"unknown">>

\* a timestamp as the API provider writes it, and the date strftime("%Y-%m-%d")
\* gives for the same instant
IsoStamp ==
    <<"2", "0", "2", "4", "-", "0", "1", "-", "0", "2", "T",
      "0", "3", ":", "0", "4", ":", "0", "5", "Z">>
IsoDate == <<"2", "0", "2", "4", "-", "0", "1", "-", "0", "2">>

DictKeys(d) == [i \in 1..Len(d) |-> d[i].name]
HasKey(d, k) == \E i \in 1..Len(d) : d[i].name = k
Lookup(d, k) == d[CHOOSE i \in 1..Len(d) : d[i].name = k].val

-----------------------------------------------------------------------------
(* Categorizer *)

\* HybridNewsScraper._match_keywords
MatchKeywords(text, category) ==
    IF text = <<>> \/ ~HasKey(keywords.v, category)
    THEN FALSE
    ELSE LET text_lower == Lower(text)
             kws == Lookup(keywords.v, category)
         IN  \E i \in 1..Len(kws) : Contains(Lower(kws[i]), text_lower)

ArticleText(article) ==
    Format(Get(article.title, Str(<<>>))) \o <<" ">>
        \o Format(Get(article.description, Str(<<>>)))

\* Faulty variants of the category search, used to test the claims about it:
\* one that has no fallback,
RECURSIVE FirstMatchNoFallback(_, _)
FirstMatchNoFallback(text, cats) ==
    IF cats = <<>> THEN "None"
    ELSE IF MatchKeywords(text, Head(cats)) THEN Head(cats)
    ELSE FirstMatchNoFallback(text, Tail(cats))

\* and one that prefers the category with the most matching keywords.
HitCount(text, category) ==
    IF text = <<>> \/ ~HasKey(keywords.v, category) THEN 0
    ELSE LET kws == Lookup(keywords.v, category)
         IN  Cardinality({i \in 1..Len(kws) : Contains(Lower(kws[i]), Lower(text))})

MostMatches(text, cats) ==
    IF \A i \in 1..Len(cats) : HitCount(text, cats[i]) = 0 THEN Fallback
    ELSE cats[CHOOSE i \in 1..Len(cats) :
                \A j \in 1..Len(cats) :
                  \/ HitCount(text, cats[i]) > HitCount(text, cats[j])
                  \/ HitCount(text, cats[i]) = HitCount(text, cats[j]) /\ i <= j]

RECURSIVE FirstMatch(_, _)
FirstMatch(text, cats) ==
    IF cats = <<>> THEN Fallback
    ELSE IF MatchKeywords(text, Head(cats)) THEN Head(cats)
    ELSE FirstMatch(text, Tail(cats))

\* HybridNewsScraper._categorize_article
CategorizeArticle(article) ==
    FirstMatch(ArticleText(article), DictKeys(keywords.v))

-----------------------------------------------------------------------------
(* API adapter *)

\* A provider response is [kind, status, articles]: the request raised
\* ("neterr"), raise_for_status raised ("http_error"), the body is no JSON
\* ("bad_json"), the JSON is no object ("not_dict"), or it is an object
\* ("dict") with a status and an articles value.

\* NewsAPIIntegration.get_top_headlines: the list returned, or None
GetTopHeadlines(resp) ==
    IF resp.kind = "dict" /\ resp.status = "ok"
    THEN Get(resp.articles, PyList(<<>>))
    ELSE PyList(<<>>)

\* NewsAPIIntegration.search_everything: the list returned, or None
SearchEverything(resp) ==
    IF resp.kind = "dict" /\ resp.status = "ok"
    THEN Get(resp.articles, PyList(<<>>))
    ELSE PyList(<<>>)

\* article.get('publishedAt', '')[:10] if article.get('publishedAt') else unknown
ApiPublishDate(raw) ==
    IF Truthy(Get(raw.publishedAt, Str(<<>>)))
    THEN Str(Take(raw.publishedAt.v, DateLen))
    ELSE Str(UnknownDate)

\* article.get('source', {}).get('name', 'NewsAPI') raises on a null source
ApiItemRaises(raw) == raw.source.t = "none"

\* the dict scrape_from_newsapi appends for one provider article
ApiRecord(raw, region) ==
    [title        |-> Get(raw.title, Str(<<>>)),
     url          |-> Get(raw.url, Str(<<>>)),
     source       |-> IF raw.source.t = "absent" THEN Str(<<"NewsAPI">>)
                      ELSE Get(raw.source.name, Str(<<"NewsAPI">>)),
     region       |-> region,
     publish_date |-> ApiPublishDate(raw),
     description  |-> Get(raw.description, Str(<<>>))]

\* One call of scrape_from_newsapi: [api, region] with api "headlines" or "search".
\* The calls left to issue, the articles appended so far, the calls issued so far.
RECURSIVE ApiCalls(_, _, _)
ApiCalls(calls, acc, log) ==
    IF calls = <<>> THEN [raised |-> "none", articles |-> acc, log |-> log]
    ELSE LET c    == Head(calls)
             lst  == IF c.api = "headlines"
                     THEN GetTopHeadlines(env.headlines_resp)
                     ELSE SearchEverything(env.search_resp)
             log2 == Append(log, c.api)
         IN  IF lst.t # "list"
             THEN [raised |-> "TypeError", articles |-> <<>>, log |-> log2]
             ELSE IF \E i \in 1..Len(lst.v) : ApiItemRaises(lst.v[i])
             THEN [raised |-> "AttributeError", articles |-> <<>>, log |-> log2]
             ELSE ApiCalls(Tail(calls),
                           acc \o [i \in 1..Len(lst.v) |-> ApiRecord(lst.v[i], c.region)],
                           log2)

\* for country in countries: for category in categories
HeadlineCalls ==
    LET nc == cfg.newsapi_config
    IN  Flatten([i \in 1..Len(nc.countries) |->
                   [j \in 1..Len(nc.categories) |->
                      [api |-> "headlines", region |-> <<"NewsAPI", nc.countries[i]>>]]])

\* for category, keywords in self.keywords.items(): for keyword in keywords[:3]
SearchCalls ==
    Flatten([i \in 1..Len(keywords.v) |->
               [j \in 1..Len(Take(keywords.v[i].val, SearchKeywordCap)) |->
                  [api |-> "search", region |-> <<"NewsAPI", "search">>]]])

\* HybridNewsScraper.scrape_from_newsapi
ScrapeFromNewsapi ==
    IF ~newsapi THEN [raised |-> "none", articles |-> <<>>, log |-> <<>>]
    ELSE LET nc == cfg.newsapi_config
             h  == IF nc.fetch_top_headlines
                   THEN ApiCalls(HeadlineCalls, <<>>, <<>>)
                   ELSE [raised |-> "none", articles |-> <<>>, log |-> <<>>]
         IN  IF h.raised # "none" \/ ~nc.search_by_keywords THEN h
             ELSE IF keywords.t # "dict"
             THEN [raised |-> "AttributeError", articles |-> <<>>, log |-> h.log]
             ELSE ApiCalls(SearchCalls, h.articles, h.log)

-----------------------------------------------------------------------------
(* Crawl adapter *)

\* What a news source answers is [build_ok, items]; an item is [ok, title,
\* url, text, has_date]: ok is FALSE when its download or parse raises.

\* the dict fetch_from_source appends for one parsed article
CrawlRecord(item, source_url) ==
    [title        |-> Str(item.title),
     url          |-> Str(item.url),
     source       |-> Str(<<source_url>>),
     publish_date |-> IF item.has_date THEN Str(IsoDate) ELSE Str(UnknownDate),
     description  |-> IF item.text # <<>>
                      THEN Str(item.text \o <<".", ".", ".">>)
                      ELSE Str(<<>>)]

\* A faulty variant of the article loop that gives up at the first article
\* whose download or parse raises.
RECURSIVE ParsedItemsStopAtFailure(_, _)
ParsedItemsStopAtFailure(items, source_url) ==
    IF items = <<>> THEN <<>>
    ELSE IF Head(items).ok
    THEN <<CrawlRecord(Head(items), source_url)>>
           \o ParsedItemsStopAtFailure(Tail(items), source_url)
    ELSE <<>>

RECURSIVE ParsedItems(_, _)
ParsedItems(items, source_url) ==
    IF items = <<>> THEN <<>>
    ELSE IF Head(items).ok
    THEN <<CrawlRecord(Head(items), source_url)>> \o ParsedItems(Tail(items), source_url)
    ELSE ParsedItems(Tail(items), source_url)

\* NewspaperIntegration.fetch_from_source
FetchFromSource(source_url, max_articles) ==
    LET s == env.crawl[source_url]
    IN  IF ~s.build_ok THEN <<>>
        ELSE ParsedItems(Take(s.items, max_articles), source_url)

WithRegion(article, region) ==
    [title |-> article.title, url |-> article.url, source |-> article.source,
     region |-> region, publish_date |-> article.publish_date,
     description |-> article.description]

\* the sources of all regions, in configuration order, each with its region
SourceList ==
    Flatten([i \in 1..Len(cfg.news_sources) |->
               [j \in 1..Len(cfg.news_sources[i].val) |->
                  [region |-> <<cfg.news_sources[i].name>>,
                   url    |-> cfg.news_sources[i].val[j]]]])

\* HybridNewsScraper.scrape_from_newspaper
ScrapeFromNewspaper ==
    IF ~newspaper THEN [articles |-> <<>>, log |-> <<>>]
    ELSE [articles |->
            Flatten([k \in 1..Len(SourceList) |->
               LET fetched == FetchFromSource(SourceList[k].url, cfg.max_articles)
               IN  [i \in 1..Len(fetched) |-> WithRegion(fetched[i], SourceList[k].region)]]),
          log |-> [k \in 1..Len(SourceList) |-> "crawl"]]

-----------------------------------------------------------------------------
(* Deduplicator and categorization loop of scrape_news *)

\* Faulty variants of the dedup loop, used to test the claims about it:
\* one that never records a url as seen,
RECURSIVE DedupLoopNoSeen(_, _, _)
DedupLoopNoSeen(articles, seen, unique) ==
    IF articles = <<>> THEN [seen |-> seen, unique |-> unique]
    ELSE LET article == Head(articles)
             url     == Get(article.url, Str(<<>>))
         IN  IF Truthy(url) /\ url \notin seen
             THEN DedupLoopNoSeen(Tail(articles), seen, Append(unique, article))
             ELSE DedupLoopNoSeen(Tail(articles), seen, unique)

\* one that does not test the url for emptiness,
RECURSIVE DedupLoopNoUrlCheck(_, _, _)
DedupLoopNoUrlCheck(articles, seen, unique) ==
    IF articles = <<>> THEN [seen |-> seen, unique |-> unique]
    ELSE LET article == Head(articles)
             url     == Get(article.url, Str(<<>>))
         IN  IF url \notin seen
             THEN DedupLoopNoUrlCheck(Tail(articles), seen \cup {url},
                                      Append(unique, article))
             ELSE DedupLoopNoUrlCheck(Tail(articles), seen, unique)

\* and one that inserts at the front of unique_articles.
RECURSIVE DedupLoopPrepend(_, _, _)
DedupLoopPrepend(articles, seen, unique) ==
    IF articles = <<>> THEN [seen |-> seen, unique |-> unique]
    ELSE LET article == Head(articles)
             url     == Get(article.url, Str(<<>>))
         IN  IF Truthy(url) /\ url \notin seen
             THEN DedupLoopPrepend(Tail(articles), seen \cup {url},
                                   <<article>> \o unique)
             ELSE DedupLoopPrepend(Tail(articles), seen, unique)

\* the dedup loop: the articles left, seen_urls, unique_articles
RECURSIVE DedupLoop(_, _, _)
DedupLoop(articles, seen, unique) ==
    IF articles = <<>> THEN [seen |-> seen, unique |-> unique]
    ELSE LET article == Head(articles)
             url     == Get(article.url, Str(<<>>))
         IN  IF Truthy(url) /\ url \notin seen
             THEN DedupLoop(Tail(articles), seen \cup {url}, Append(unique, article))
             ELSE DedupLoop(Tail(articles), seen, unique)

Dedupe(articles) == DedupLoop(articles, {}, <<>>).unique

\* A faulty variant of the initial mapping that has the taxonomy keys only.
EmptyCategoriesNoFallback ==
    [i \in 1..Len(keywords.v) |-> [name |-> keywords.v[i].name, val |-> <<>>]]

\* {category: [] for category in self.keywords.keys()}, then [fallback] = []
EmptyCategories ==
    LET d == [i \in 1..Len(keywords.v) |-> [name |-> keywords.v[i].name, val |-> <<>>]]
    IN  IF HasKey(d, Fallback) THEN d
        ELSE Append(d, [name |-> Fallback, val |-> <<>>])

\* Faulty variants of the append, used to test the claims about categorization:
\* one that also files the article under the fallback category,
DictAppendAlsoFallback(d, k, x) ==
    [i \in 1..Len(d) |->
       IF d[i].name = k \/ d[i].name = Fallback
       THEN [name |-> d[i].name, val |-> Append(d[i].val, x)] ELSE d[i]]

\* and one that inserts at the front of the category's list.
DictAppendFront(d, k, x) ==
    [i \in 1..Len(d) |->
       IF d[i].name = k THEN [name |-> k, val |-> <<x>> \o d[i].val] ELSE d[i]]

\* one that files a copy of the article that has lost its description,
DictAppendTrimmed(d, k, x) ==
    [i \in 1..Len(d) |->
       IF d[i].name = k
       THEN [name |-> k, val |-> Append(d[i].val, [x EXCEPT !.description = Str(<<>>)])]
       ELSE d[i]]

\* categorized_news[category].append(article)
DictAppend(d, k, x) ==
    [i \in 1..Len(d) |->
       IF d[i].name = k THEN [name |-> k, val |-> Append(d[i].val, x)] ELSE d[i]]

\* for article in unique_articles: categorize and append
RECURSIVE CategorizeLoop(_, _)
CategorizeLoop(articles, d) ==
    IF articles = <<>> THEN d
    ELSE CategorizeLoop(Tail(articles),
                        DictAppend(d, CategorizeArticle(Head(articles)), Head(articles)))

-----------------------------------------------------------------------------
(* Summarizer *)

\* article.get('title', '').strip() raises on a null title
TitleRaises(article) == Get(article.title, Str(<<>>)).t = "none"

\* the categories _prepare_news_text does not skip
DigestCategories(news_data) ==
    SelectSeq(news_data, LAMBDA e : e.val # <<>> /\ e.name # Fallback)

\* A faulty variant of the digest that takes the titles of all articles.
DigestTitlesUncapped(articles) ==
    LET stripped == [i \in 1..Len(articles) |-> Strip(Get(articles[i].title, Str(<<>>)).v)]
    IN  SelectSeq(stripped, LAMBDA t : t # <<>>)

\* the non-empty stripped titles of the first DigestCap articles
DigestTitles(articles) ==
    LET first    == Take(articles, DigestCap)
        stripped == [i \in 1..Len(first) |-> Strip(Get(first[i].title, Str(<<>>)).v)]
    IN  SelectSeq(stripped, LAMBDA t : t # <<>>)

\* DeepSeekSummarizer._prepare_news_text: the digest, or the exception raised
PrepareNewsText(news_data) ==
    LET cats == DigestCategories(news_data)
    IN  IF \E i \in 1..Len(cats) :
              \E j \in 1..Len(Take(cats[i].val, DigestCap)) : TitleRaises(cats[i].val[j])
        THEN [raised |-> "AttributeError", parts |-> <<>>]
        ELSE [raised |-> "none",
              parts  |-> [i \in 1..Len(cats) |->
                            [category |-> cats[i].name,
                             count    |-> Len(cats[i].val),
                             titles   |-> DigestTitles(cats[i].val)]]]

\* DeepSeekSummarizer.generate_daily_summary: the summary, or the exception raised
GenerateDailySummary(news_data) ==
    LET prep == PrepareNewsText(news_data)
    IN  IF prep.raised # "none" THEN [raised |-> prep.raised, summary |-> <<>>, called |-> FALSE]
        ELSE IF prep.parts = <<>> THEN [raised |-> "none", summary |-> <<>>, called |-> FALSE]
        ELSE IF env.summarizer.kind = "ok"
        THEN [raised |-> "none", summary |-> Strip(env.summarizer.content), called |-> TRUE]
        ELSE [raised |-> "none", summary |-> <<>>, called |-> TRUE]

-----------------------------------------------------------------------------
(* Report assembler *)

NoReport == [written |-> FALSE]

\* the lines generate_markdown_report renders for one article
RenderArticle(article) ==
    [title        |-> Format(article.title),
     url          |-> Format(article.url),
     source       |-> Format(article.source),
     region       |-> article.region,
     publish_date |-> Format(article.publish_date),
     snippet      |-> IF Truthy(Get(article.description, Str(<<>>)))
                      THEN <<Take(article.description.v, SnippetCap) \o <<".", ".", ".">>>>
                      ELSE <<>>]

\* sources_used
SourcesUsed ==
    (IF use_newsapi THEN <<"NewsAPI">> ELSE <<>>)
        \o (IF use_newspaper THEN <<"Newspaper3k">> ELSE <<>>)
        \o (IF use_deepseek THEN <<"DeepSeek">> ELSE <<>>)

RECURSIVE SumLen(_)
SumLen(d) == IF d = <<>> THEN 0 ELSE Len(Head(d).val) + SumLen(Tail(d))

\* A faulty variant of the assembler that prints a count line for every
\* category, empty ones included.
ReportContentAllStats(news_data, summary) ==
    LET shown == SelectSeq(news_data, LAMBDA e : e.val # <<>>)
    IN  [written      |-> TRUE,
         sources_used |-> SourcesUsed,
         summary      |-> IF summary # <<>> THEN <<summary>> ELSE <<>>,
         total        |-> SumLen(news_data),
         stats        |-> [i \in 1..Len(news_data) |->
                             [category |-> news_data[i].name,
                              count    |-> Len(news_data[i].val)]],
         sections     |-> [i \in 1..Len(shown) |->
                             [category |-> shown[i].name,
                              count    |-> Len(shown[i].val),
                              articles |-> [j \in 1..Len(shown[i].val) |->
                                              RenderArticle(shown[i].val[j])]]]]

\* A faulty variant of the assembler that lists the sections last to first.
ReportContentReversed(news_data, summary) ==
    LET shown == SelectSeq(news_data, LAMBDA e : e.val # <<>>)
        n     == Len(shown)
    IN  [written      |-> TRUE,
         sources_used |-> SourcesUsed,
         summary      |-> IF summary # <<>> THEN <<summary>> ELSE <<>>,
         total        |-> SumLen(news_data),
         stats        |-> [i \in 1..n |->
                             [category |-> shown[i].name, count |-> Len(shown[i].val)]],
         sections     |-> [i \in 1..n |->
                             [category |-> shown[n + 1 - i].name,
                              count    |-> Len(shown[n + 1 - i].val),
                              articles |-> [j \in 1..Len(shown[n + 1 - i].val) |->
                                              RenderArticle(shown[n + 1 - i].val[j])]]]]

\* A faulty variant of the assembler that emits the summary section whatever
\* the summarizer returned.
ReportContentAlwaysSummary(news_data, summary) ==
    LET shown == SelectSeq(news_data, LAMBDA e : e.val # <<>>)
    IN  [written      |-> TRUE,
         sources_used |-> SourcesUsed,
         summary      |-> <<summary>>,
         total        |-> SumLen(news_data),
         stats        |-> [i \in 1..Len(shown) |->
                             [category |-> shown[i].name, count |-> Len(shown[i].val)]],
         sections     |-> [i \in 1..Len(shown) |->
                             [category |-> shown[i].name,
                              count    |-> Len(shown[i].val),
                              articles |-> [j \in 1..Len(shown[i].val) |->
                                              RenderArticle(shown[i].val[j])]]]]

\* the content generate_markdown_report writes, given the summary obtained
ReportContent(news_data, summary) ==
    LET shown == SelectSeq(news_data, LAMBDA e : e.val # <<>>)
    IN  [written      |-> TRUE,
         sources_used |-> SourcesUsed,
         summary      |-> IF summary # <<>> THEN <<summary>> ELSE <<>>,
         total        |-> SumLen(news_data),
         stats        |-> [i \in 1..Len(shown) |->
                             [category |-> shown[i].name, count |-> Len(shown[i].val)]],
         sections     |-> [i \in 1..Len(shown) |->
                             [category |-> shown[i].name,
                              count    |-> Len(shown[i].val),
                              articles |-> [j \in 1..Len(shown[i].val) |->
                                              RenderArticle(shown[i].val[j])]]]]

-----------------------------------------------------------------------------
(* Operations *)

MaxScrapes == 2    \* invocations of scrape_news on one instance

\* the date of the current run and what the disk does during it
Today == env.runs[run].today
Disk == env.runs[run].disk

\* what the email side does during it: "ok" (the sender is built and
\* send_news_report returns True), "send_fails" (send_news_report returns
\* False), "no_config" (EmailSender raises EmailSenderError)
Mail == env.runs[run].mail

\* A faulty variant of the file name that also embeds the number of the run.
FileNameVersioned(today) == <<"news_daily_report_", today, run, ".md">>

\* filename = f"news_daily_report_{today}.md"
FileName(today) == <<"news_daily_report_", today, ".md">>

\* the file a completed open-and-write leaves
WholeFile(name, content) ==
    [name |-> name, whole |-> TRUE, by |-> run, content |-> content]

\* the file left when open(filepath, 'w') has truncated it and the write did
\* not complete: empty or cut short
PartialFile(name) ==
    [name |-> name, whole |-> FALSE, by |-> run, content |-> NoReport]

\* the directory after a file of that name has been opened for writing
Replace(dir, file) == {f \in dir : f.name # file.name} \cup {file}

\* what the caller of run (main) is given
Success(path) == [today |-> Today, kind |-> "path", path |-> path, error |-> "none"]
Failure(err) == [today |-> Today, kind |-> "failure", path |-> <<>>, error |-> err]

\* an exception leaves run and reaches main
Raise(err, where) ==
    /\ pc' = "failed"
    /\ error' = err
    /\ raised_in' = where
    /\ outcomes' = Append(outcomes, Failure(err))

\* A faulty variant of _load_config that falls back to an empty configuration.
LoadConfigSilent == [raised |-> "none"]

\* HybridNewsScraper._load_config: the exception raised, if any
LoadConfig ==
    [raised |-> IF cfg.file = "ok" THEN "none" ELSE "NewsScraperError"]

\* HybridNewsScraper.__init__
Construct ==
    /\ pc = "new"
    /\ IF LoadConfig.raised # "none"
       THEN /\ Raise(LoadConfig.raised, "_load_config")
            /\ UNCHANGED <<keywords, use_newsapi, newsapi, use_newspaper, newspaper,
                           use_deepseek, deepseek>>
       ELSE /\ pc' = "ready"
            /\ UNCHANGED <<error, raised_in, outcomes>>
            /\ keywords' = Get(cfg.keywords, PyDict(<<>>))
            /\ newsapi' = (cfg.use_newsapi /\ Truthy(cfg.newsapi_key) /\ env.libs.requests)
            /\ use_newsapi' = (cfg.use_newsapi
                                 /\ ~(Truthy(cfg.newsapi_key) /\ ~env.libs.requests))
            /\ newspaper' = (cfg.use_newspaper /\ env.libs.newspaper)
            /\ use_newspaper' = (cfg.use_newspaper /\ env.libs.newspaper)
            /\ deepseek' = (cfg.use_deepseek /\ Truthy(cfg.deepseek_api_key)
                              /\ env.libs.openai)
            /\ use_deepseek' = (cfg.use_deepseek
                                  /\ ~(Truthy(cfg.deepseek_api_key) /\ ~env.libs.openai))
    /\ UNCHANGED <<cfg, env, run, files, all_articles, unique_articles, seen_urls,
                   categorized_news, fetch_log, scrapes, earlier, summary_calls, report,
                   sent, exit_code>>
    /\ UNCHANGED cron_vars

\* A faulty variant of the gathering that asks the crawl adapter first.
GatherCrawlFirst(api, crawl) ==
    [articles |-> crawl.articles \o api.articles, log |-> crawl.log \o api.log]

\* all_articles after both extend calls, and the provider calls issued for it
Gather(api, crawl) ==
    [articles |-> api.articles \o crawl.articles, log |-> api.log \o crawl.log]

\* A faulty variant of run that goes on to the report after scrape_news raised.
AfterScrapeSwallow(raised) == "scraped"

\* run has no handler around scrape_news: where the caller is after it
AfterScrape(raised) == IF raised # "none" THEN "failed" ELSE "scraped"

\* A faulty variant of the start of the dedup loop that goes on with the urls
\* seen by the earlier invocation.
InitialSeenKept == seen_urls

\* seen_urls = set()
InitialSeen == {}

\* HybridNewsScraper.scrape_news, as run calls it
ScrapeNews ==
    /\ pc = "ready"
    /\ LET api   == IF use_newsapi THEN ScrapeFromNewsapi
                    ELSE [raised |-> "none", articles |-> <<>>, log |-> <<>>]
           crawl == IF use_newspaper THEN ScrapeFromNewspaper
                    ELSE [articles |-> <<>>, log |-> <<>>]
           all   == Gather(api, crawl)
           d     == DedupLoop(all.articles, InitialSeen, <<>>)
       IN  IF api.raised # "none"
           THEN /\ pc' = AfterScrape(api.raised)
                /\ error' = api.raised
                /\ raised_in' = "scrape_from_newsapi"
                /\ outcomes' = Append(outcomes, Failure(api.raised))
                /\ fetch_log' = fetch_log \o api.log
                /\ UNCHANGED <<all_articles, unique_articles, seen_urls, categorized_news>>
           ELSE /\ fetch_log' = fetch_log \o all.log
                /\ all_articles' = all.articles
                /\ unique_articles' = d.unique
                /\ seen_urls' = d.seen
                /\ IF keywords.t # "dict"
                   THEN /\ pc' = AfterScrape("AttributeError")
                        /\ error' = "AttributeError"
                        /\ raised_in' = "scrape_news"
                        /\ outcomes' = Append(outcomes, Failure("AttributeError"))
                        /\ UNCHANGED categorized_news
                   ELSE /\ pc' = AfterScrape("none")
                        /\ UNCHANGED <<error, raised_in, outcomes>>
                        /\ categorized_news' = CategorizeLoop(d.unique, EmptyCategories)
    /\ scrapes' = scrapes + 1
    /\ UNCHANGED <<cfg, env, run, files, keywords, use_newsapi, newsapi, use_newspaper,
                   newspaper, use_deepseek, deepseek, earlier, summary_calls, report,
                   sent, exit_code>>
    /\ UNCHANGED cron_vars

\* HybridNewsScraper.generate_markdown_report, as run calls it, and run's return
GenerateMarkdownReport ==
    /\ pc = "scraped"
    /\ IF Disk = "mkdir_fails"
       THEN /\ Raise("OSError", "generate_markdown_report")
            /\ UNCHANGED <<summary_calls, report, files>>
       ELSE LET s    == IF use_deepseek /\ deepseek
                        THEN GenerateDailySummary(categorized_news)
                        ELSE [raised |-> "none", summary |-> <<>>, called |-> FALSE]
                path == FileName(Today)
            IN  /\ summary_calls' = summary_calls + (IF s.called THEN 1 ELSE 0)
                /\ IF s.raised # "none"
                   THEN /\ Raise(s.raised, "_prepare_news_text")
                        /\ UNCHANGED <<report, files>>
                   ELSE IF Disk = "open_fails"
                   THEN /\ Raise("OSError", "generate_markdown_report")
                        /\ UNCHANGED <<report, files>>
                   ELSE IF Disk = "write_fails"
                   THEN /\ Raise("OSError", "generate_markdown_report")
                        /\ files' = Replace(files, PartialFile(path))
                        /\ UNCHANGED report
                   ELSE /\ pc' = "done"
                        /\ UNCHANGED <<error, raised_in>>
                        /\ report' = ReportContent(categorized_news, s.summary)
                        /\ files' = Replace(files,
                                            WholeFile(path,
                                                      ReportContent(categorized_news,
                                                                    s.summary)))
                        /\ outcomes' = Append(outcomes, Success(path))
    /\ UNCHANGED <<cfg, env, run, keywords, use_newsapi, newsapi, use_newspaper, newspaper,
                   use_deepseek, deepseek, all_articles, unique_articles, seen_urls,
                   categorized_news, fetch_log, scrapes, earlier, sent, exit_code>>
    /\ UNCHANGED cron_vars

\* the state of a scraper object that is not constructed yet
NotConstructed ==
    /\ pc \in {"new", "cron"}
    /\ error = "none"
    /\ raised_in = "none"
    /\ keywords = PyDict(<<>>)
    /\ use_newsapi = FALSE /\ newsapi = FALSE
    /\ use_newspaper = FALSE /\ newspaper = FALSE
    /\ use_deepseek = FALSE /\ deepseek = FALSE
    /\ all_articles = <<>>
    /\ unique_articles = <<>>
    /\ seen_urls = {}
    /\ categorized_news = <<>>
    /\ fetch_log = <<>>
    /\ scrapes = 0
    /\ earlier = <<>>
    /\ summary_calls = 0
    /\ report = NoReport
    /\ sent = <<>>
    /\ exit_code = <<>>

\* main is invoked again, in a new process, after the previous invocation ended
NextRun ==
    /\ pc \in {"done", "failed"}
    /\ run < Len(env.runs)
    /\ run' = run + 1
    /\ pc' = "new"
    /\ error' = "none"
    /\ raised_in' = "none"
    /\ keywords' = PyDict(<<>>)
    /\ use_newsapi' = FALSE /\ newsapi' = FALSE
    /\ use_newspaper' = FALSE /\ newspaper' = FALSE
    /\ use_deepseek' = FALSE /\ deepseek' = FALSE
    /\ all_articles' = <<>>
    /\ unique_articles' = <<>>
    /\ seen_urls' = {}
    /\ categorized_news' = <<>>
    /\ fetch_log' = <<>>
    /\ scrapes' = 0
    /\ earlier' = <<>>
    /\ summary_calls' = 0
    /\ report' = NoReport
    /\ sent' = <<>>
    /\ exit_code' = <<>>
    /\ UNCHANGED <<cfg, env, files, outcomes>>
    /\ UNCHANGED cron_vars

\* what the API provider answers the next time it is asked: the oldest
\* article of its list is gone
LaterAnswer(resp) ==
    IF resp.kind = "dict" /\ resp.status = "ok" /\ resp.articles.t = "list"
         /\ resp.articles.v # <<>>
    THEN [resp EXCEPT !.articles = PyList(Tail(resp.articles.v))]
    ELSE resp

\* The holder of the instance is about to call scrape_news on it once more:
\* the locals of the earlier invocation are gone, its result stays with the
\* caller, the object fields are as they were, the provider has moved on.
CallAgain ==
    /\ pc = "scraped"
    /\ scrapes < MaxScrapes
    /\ pc' = "ready"
    /\ earlier' = categorized_news
    /\ env' = [env EXCEPT !.headlines_resp = LaterAnswer(env.headlines_resp)]
    /\ fetch_log' = <<>>
    /\ UNCHANGED <<cfg, run, files, outcomes, error, raised_in, keywords, use_newsapi,
                   newsapi, use_newspaper, newspaper, use_deepseek, deepseek,
                   all_articles, unique_articles, seen_urls, categorized_news,
                   scrapes, summary_calls, report, sent, exit_code>>
    /\ UNCHANGED cron_vars

\* A faulty variant of the daily task that hands the sender whatever the
\* scraper left and reports the sender's verdict.
TaskOutcomeSendAnyway(result, mail) ==
    IF mail = "no_config"
    THEN [sent |-> <<>>, code |-> 0]
    ELSE [sent |-> <<result.path>>, code |-> IF mail = "ok" THEN 0 ELSE 1]

\* run_daily_task from the point where scraper.run has returned or raised:
\* the paths passed to send_news_report and the status returned
TaskOutcome(result, mail) ==
    IF result.kind = "path"
    THEN IF mail = "no_config"
         THEN [sent |-> <<>>, code |-> 0]
         ELSE [sent |-> <<result.path>>, code |-> IF mail = "ok" THEN 0 ELSE 1]
    ELSE [sent |-> <<>>, code |-> 1]

\* The caller is run_daily_task: step 2 and the return, or one of the
\* handlers of the outer try
RunDailyTask ==
    /\ pc \in {"done", "failed"}
    /\ exit_code = <<>>
    /\ LET t == TaskOutcome(outcomes[Len(outcomes)], Mail)
       IN  /\ sent' = t.sent
           /\ exit_code' = <<t.code>>
    /\ UNCHANGED <<cfg, env, run, files, outcomes, pc, error, raised_in, keywords,
                   use_newsapi, newsapi, use_newspaper, newspaper, use_deepseek,
                   deepseek, all_articles, unique_articles, seen_urls,
                   categorized_news, fetch_log, scrapes, earlier, summary_calls,
                   report>>
    /\ UNCHANGED cron_vars

(* The task manager of cron_manager.py, run as a program of its own *)

MaxCronCalls == 3  \* calls made on the managers of one session

\* self.config.get("task_comment", "Daily News Scraper Task")
TaskComment == "Daily News Scraper Task"

\* a crontab line
Job(comment, command, slices, enabled) ==
    [comment |-> comment, command |-> command, slices |-> slices, enabled |-> enabled]

\* the command _build_command returns, and the time fields add_task sets
BuiltCommand == "python daily_news_task.py >> cron_task.log 2>&1"
DailySlices == "0 7 * * *"

\* self.cron.new(command=command, comment=comment): enabled, every minute
NewJob == Job(TaskComment, BuiltCommand, "* * * * *", TRUE)

\* CronTaskManager.task_exists
TaskExists(jobs, comment) == \E i \in 1..Len(jobs) : jobs[i].comment = comment

\* the jobs left when every job with that comment is removed
Without(jobs, comment) == SelectSeq(jobs, LAMBDA j : j.comment # comment)

\* every job with that comment enabled or disabled
Enabled(jobs, comment, on) ==
    [i \in 1..Len(jobs) |->
       IF jobs[i].comment = comment THEN [jobs[i] EXCEPT !.enabled = on] ELSE jobs[i]]

\* self.cron.write(): the crontab on disk after it, a failing write leaving
\* it as it was
Written(jobs, saved, fails) == IF fails THEN saved ELSE jobs

\* CronTaskManager.remove_task: jobs in memory, crontab on disk, return value
RemoveTaskResult(jobs, saved, comment, fault) ==
    IF TaskExists(jobs, comment)
    THEN [cron |-> Without(jobs, comment),
          crontab |-> Written(Without(jobs, comment), saved, fault = "write"),
          returned |-> (fault # "write")]
    ELSE [cron |-> jobs, crontab |-> saved, returned |-> FALSE]

\* CronTaskManager.enable_task (on) and disable_task (~on)
EnableTaskResult(jobs, saved, comment, on, fault) ==
    IF TaskExists(jobs, comment)
    THEN [cron |-> Enabled(jobs, comment, on),
          crontab |-> Written(Enabled(jobs, comment, on), saved, fault = "write"),
          returned |-> (fault # "write")]
    ELSE [cron |-> jobs, crontab |-> saved, returned |-> FALSE]

\* the steps of add_task that can raise
AddFaults == {"none", "remove_write", "build", "setall", "write"}

\* A faulty variant of add_task that, forced, leaves the existing job in place.
AddTaskResultKeepsOld(jobs, saved, force, fault) ==
    IF TaskExists(jobs, TaskComment) /\ ~force
    THEN [cron |-> jobs, crontab |-> saved, returned |-> FALSE]
    ELSE IF fault = "build"
    THEN [cron |-> jobs, crontab |-> saved, returned |-> FALSE]
    ELSE IF fault = "setall"
    THEN [cron |-> Append(jobs, NewJob), crontab |-> saved, returned |-> FALSE]
    ELSE LET set == Append(jobs, [NewJob EXCEPT !.slices = DailySlices])
         IN  [cron |-> set, crontab |-> Written(set, saved, fault = "write"),
              returned |-> (fault # "write")]

\* CronTaskManager.add_task: jobs in memory, crontab on disk, return value
AddTaskResult(jobs, saved, force, fault) ==
    IF TaskExists(jobs, TaskComment) /\ ~force
    THEN [cron |-> jobs, crontab |-> saved, returned |-> FALSE]
    ELSE LET r == IF TaskExists(jobs, TaskComment)
                  THEN RemoveTaskResult(jobs, saved, TaskComment,
                                        IF fault = "remove_write" THEN "write"
                                        ELSE "none")
                  ELSE [cron |-> jobs, crontab |-> saved, returned |-> FALSE]
         IN  IF fault = "build"
             THEN [cron |-> r.cron, crontab |-> r.crontab, returned |-> FALSE]
             ELSE IF fault = "setall"
             THEN [cron |-> Append(r.cron, NewJob), crontab |-> r.crontab,
                   returned |-> FALSE]
             ELSE LET set == Append(r.cron, [NewJob EXCEPT !.slices = DailySlices])
                  IN  [cron |-> set,
                       crontab |-> Written(set, r.crontab, fault = "write"),
                       returned |-> (fault # "write")]

\* no manager call has been made on the current instance
NoCall ==
    [op |-> "none", force |-> FALSE, returned |-> FALSE, before |-> <<>>,
     held |-> <<>>]

Called(op, force, r) ==
    /\ cron' = r.cron
    /\ crontab' = r.crontab
    /\ cron_calls' = cron_calls + 1
    /\ last_call' = [op |-> op, force |-> force, returned |-> r.returned,
                     before |-> crontab, held |-> cron]
    /\ UNCHANGED scraper_vars

AddTask ==
    /\ pc = "cron"
    /\ cron_calls < MaxCronCalls
    /\ \E force \in BOOLEAN, fault \in AddFaults :
         Called("add_task", force, AddTaskResult(cron, crontab, force, fault))

RemoveTask ==
    /\ pc = "cron"
    /\ cron_calls < MaxCronCalls
    /\ \E fault \in {"none", "write"} :
         Called("remove_task", FALSE, RemoveTaskResult(cron, crontab, TaskComment, fault))

EnableTask ==
    /\ pc = "cron"
    /\ cron_calls < MaxCronCalls
    /\ \E fault \in {"none", "write"} :
         Called("enable_task", FALSE,
                EnableTaskResult(cron, crontab, TaskComment, TRUE, fault))

DisableTask ==
    /\ pc = "cron"
    /\ cron_calls < MaxCronCalls
    /\ \E fault \in {"none", "write"} :
         Called("disable_task", FALSE,
                EnableTaskResult(cron, crontab, TaskComment, FALSE, fault))

\* cron_manager.py is started again: CronTaskManager.__init__ reads the crontab
NewManager ==
    /\ pc = "cron"
    /\ cron_calls < MaxCronCalls
    /\ cron # crontab
    /\ cron' = crontab
    /\ last_call' = NoCall
    /\ UNCHANGED <<crontab, cron_calls>>
    /\ UNCHANGED scraper_vars

Next ==
    Construct \/ ScrapeNews \/ GenerateMarkdownReport \/ NextRun \/ CallAgain
      \/ RunDailyTask \/ AddTask \/ RemoveTask \/ EnableTask \/ DisableTask
      \/ NewManager

-----------------------------------------------------------------------------
(* Bounds and the inputs drawn within them *)

MaxItems == 2      \* articles per provider answer, data runs
MaxRunItems == 1   \* articles per provider answer, orchestration runs
MaxCats == 3       \* categories of a taxonomy, categorization runs

kx == <<"x">>
kY == <<"Y">>
kno == <<"n", "o">>

Entry(name, val) == [name |-> name, val |-> val]

\* {"Tech": ["x"], "Sports": ["Y"]}
TechSports == <<Entry("Tech", <<kx>>), Entry("Sports", <<kY>>)>>
\* a taxonomy that names one of its categories like the fallback
WithFallbackKey == <<Entry(Fallback, <<kx>>), Entry("Tech", <<kY>>)>>

OkSource == [t |-> "dict", name |-> Str(<<"S">>)]
NullSource == [t |-> "none", name |-> Absent]

ApiItem(title, url, description, source) ==
    [title |-> title, url |-> url, description |-> description, source |-> source,
     publishedAt |-> Str(IsoStamp)]

\* an article of the API provider with the given publishedAt value
DatedItem(publishedAt) ==
    [title |-> Str(kx), url |-> Str(<<"u1">>), description |-> Str(<<>>),
     source |-> OkSource, publishedAt |-> publishedAt]

CrawlItem(ok, title, url) ==
    [ok |-> ok, title |-> title, url |-> url, text |-> <<>>, has_date |-> TRUE]

Failed(kind) == [kind |-> kind, status |-> "none", articles |-> Absent]
StatusError == [kind |-> "dict", status |-> "error", articles |-> Absent]
OkResp(articles) == [kind |-> "dict", status |-> "ok", articles |-> articles]

AllLibs == [requests |-> TRUE, newspaper |-> TRUE, openai |-> TRUE]

NewsapiConfig(search) ==
    [fetch_top_headlines |-> TRUE, countries |-> <<"us">>,
     categories |-> <<"technology">>, search_by_keywords |-> search]

OneSource == <<Entry("r1", <<"s1">>)>>

Config(file, kw, api, key, search, paper, ds, dskey) ==
    [file |-> file, keywords |-> kw, use_newsapi |-> api, newsapi_key |-> key,
     newsapi_config |-> NewsapiConfig(search), use_newspaper |-> paper,
     news_sources |-> OneSource, max_articles |-> DefaultMaxArticles,
     use_deepseek |-> ds, deepseek_api_key |-> dskey]

\* one invocation of main: its date (a day number) and what the disk does
\* when the report is written: "ok", "mkdir_fails", "open_fails", "write_fails"
OneRun == <<[today |-> 1, disk |-> "ok", mail |-> "ok"]>>
TwoRuns == <<[today |-> 1, disk |-> "ok", mail |-> "ok"],
             [today |-> 1, disk |-> "ok", mail |-> "ok"]>>

Env(h, s, c, sm) ==
    [headlines_resp |-> h, search_resp |-> s, crawl |-> [x \in {"s1"} |-> c],
     summarizer |-> sm, libs |-> AllLibs, runs |-> OneRun]

NoSummarizer == [kind |-> "raises", content |-> <<>>]

\* an enable flag with its credential
Switches == {<<FALSE, Str(<<>>)>>, <<TRUE, Str(<<>>)>>, <<TRUE, Str(<<"k">>)>>}

\* the first invocation of main, the output directory holding no report yet
Fresh ==
    /\ NotConstructed
    /\ pc = "new"
    /\ run = 1
    /\ files = {}
    /\ outcomes = <<>>
    /\ crontab = <<>>
    /\ cron = <<>>
    /\ cron_calls = 0
    /\ last_call = NoCall

(* Orchestration runs: every configuration shape, few articles *)

\* publishedAt missing, null, empty, and a text that is not a date
RunDates == {Absent, PyNone, Str(<<>>), Str(<<"s", "o", "o", "n">>)}

RunApiItems ==
    {ApiItem(Str(kx), Str(<<"u1">>), Str(<<>>), OkSource),
     ApiItem(PyNone, Str(<<"u1">>), Str(kx), OkSource),
     ApiItem(Str(kx), Str(<<"u2">>), Absent, NullSource)}
        \cup {DatedItem(d) : d \in RunDates}

RunResponses ==
    {Failed("neterr"), Failed("bad_json"), Failed("not_dict"), StatusError,
     OkResp(PyNone)}
        \cup {OkResp(PyList(l)) : l \in SeqsUpTo(RunApiItems, MaxRunItems)}

RunSearchResponses ==
    {Failed("neterr"),
     OkResp(PyList(<<ApiItem(Str(kY), Str(<<"u2">>), Str(<<>>), OkSource)>>))}

RunCrawlItems ==
    {CrawlItem(TRUE, kY, <<"u3">>), CrawlItem(FALSE, kx, <<"u4">>),
     [CrawlItem(TRUE, kY, <<"u3">>) EXCEPT !.has_date = FALSE]}

RunCrawls ==
    {[build_ok |-> FALSE, items |-> <<>>]}
        \cup {[build_ok |-> TRUE, items |-> l] : l \in SeqsUpTo(RunCrawlItems, MaxRunItems)}

RunSummarizers ==
    {[kind |-> "ok", content |-> <<"s">>], [kind |-> "ok", content |-> <<" ">>],
     NoSummarizer}

RunConfigs ==
    {Config("missing", Absent, FALSE, Str(<<>>), FALSE, FALSE, FALSE, Str(<<>>)),
     Config("bad_json", Absent, FALSE, Str(<<>>), FALSE, FALSE, FALSE, Str(<<>>))}
        \cup {Config("ok", kw, api[1], api[2], search, paper, ds[1], ds[2]) :
                kw \in {Absent, PyList(<<>>), PyDict(TechSports)},
                api \in Switches, search \in BOOLEAN, paper \in BOOLEAN,
                ds \in Switches}

RunEnvs ==
    {Env(h, s, c, sm) : h \in RunResponses, s \in RunSearchResponses,
                        c \in RunCrawls, sm \in RunSummarizers}

\* An answer nobody asks for is fixed: a provider that the configuration never
\* calls is given its first answer only, so that unread inputs add no states.
IdleCrawl == [build_ok |-> FALSE, items |-> <<>>]
Idle == Env(Failed("neterr"), Failed("neterr"), IdleCrawl, NoSummarizer)

\* main is invoked a second time after a failed invocation
Again == [Idle EXCEPT !.runs = TwoRuns]

(* Manager sessions: every small crontab with at most one job of the project *)

MaxJobs == 2       \* lines of the crontab at the start

\* a job of another program, and the project's job as an earlier
\* installation left it
OtherJob == Job("backup", "backup.sh", "0 3 * * *", TRUE)
OldJob(enabled) == Job(TaskComment, "python old/daily_news_task.py", DailySlices, enabled)

Crontabs ==
    {t \in SeqsUpTo({OtherJob, OldJob(TRUE), OldJob(FALSE)}, MaxJobs) :
       Cardinality({i \in 1..Len(t) : t[i].comment = TaskComment}) <= 1}

\* cron_manager.py has been started and its manager has read the crontab;
\* no scraper runs in this session
CronSession ==
    /\ cfg = Config("missing", Absent, FALSE, Str(<<>>), FALSE, FALSE, FALSE, Str(<<>>))
    /\ env = Idle
    /\ NotConstructed
    /\ pc = "cron"
    /\ run = 1
    /\ files = {}
    /\ outcomes = <<>>
    /\ crontab \in Crontabs
    /\ cron = crontab
    /\ cron_calls = 0
    /\ last_call = NoCall

ApiActive(c) == c.file = "ok" /\ c.use_newsapi /\ Truthy(c.newsapi_key)

Asked(c, e) ==
    /\ ~ApiActive(c) => e.headlines_resp = Idle.headlines_resp
    /\ ~(ApiActive(c) /\ c.newsapi_config.search_by_keywords)
          => e.search_resp = Idle.search_resp
    /\ ~(c.file = "ok" /\ c.use_newspaper) => e.crawl = Idle.crawl
    /\ ~(c.file = "ok" /\ c.use_deepseek /\ Truthy(c.deepseek_api_key))
          => e.summarizer = Idle.summarizer
    /\ c.file # "missing" => e.runs = OneRun

Init ==
    \/ /\ cfg \in RunConfigs
       /\ env \in RunEnvs \cup {Again}
       /\ Asked(cfg, env)
       /\ Fresh
    \/ CronSession

Spec == Init /\ [][Next]_vars

(* Data runs: both adapters answer, many article sequences *)

DataUrls == {Str(<<"u2">>), Str(<<>>), PyNone}
DataTitles == {Str(kx), Str(kY)}

\* u1 under both titles, and one record for each other url, empty and null included
DataApiItems ==
    {ApiItem(t, Str(<<"u1">>), Str(<<>>), OkSource) : t \in DataTitles}
        \cup {ApiItem(Str(kx), u, Str(<<>>), OkSource) : u \in DataUrls}

\* u3 under both titles, and u2 under the title the API adapter does not give it
DataCrawlItems ==
    {CrawlItem(TRUE, t, <<"u3">>) : t \in {kx, kY}}
        \cup {CrawlItem(TRUE, kY, <<"u2">>)}

DataTaxonomies == {PyDict(TechSports), PyDict(WithFallbackKey), PyDict(<<>>)}

DataConfigs ==
    {Config("missing", Absent, FALSE, Str(<<>>), FALSE, FALSE, FALSE, Str(<<>>))}
        \cup {Config("ok", kw, TRUE, Str(<<"k">>), FALSE, TRUE, FALSE, Str(<<>>)) :
                kw \in DataTaxonomies}

DataEnvs ==
    {Idle} \cup
    {Env(OkResp(PyList(a)), Idle.search_resp, [build_ok |-> TRUE, items |-> c],
         Idle.summarizer) :
       a \in SeqsUpTo(DataApiItems, MaxItems), c \in SeqsUpTo(DataCrawlItems, MaxItems)}

InitData ==
    \/ /\ cfg \in DataConfigs
       /\ env \in DataEnvs \cup {Again}
       /\ Asked(cfg, env)
       /\ Fresh
    \/ CronSession

SpecData == InitData /\ [][Next]_vars

(* Categorization runs: one article, many texts and taxonomies *)

CatTitles == {Absent, PyNone, Str(<<>>), Str(<<"x">>), Str(<<"X", "y">>), Str(<<"q">>)}
CatDescriptions == {Absent, PyNone, Str(<<"y">>), Str(<<"q">>)}
CatKeywordLists == {<<>>, <<kx>>, <<kY>>, <<kY, kx>>, <<kno>>}
CatNames == {<<"A", "B", "C", "D">>, <<"A", Fallback, "C", "D">>}

CatTaxonomies ==
    {PyDict([i \in 1..Len(kws) |-> Entry(names[i], kws[i])]) :
       names \in CatNames, kws \in SeqsUpTo(CatKeywordLists, MaxCats)}

CatConfigs ==
    {Config("missing", Absent, FALSE, Str(<<>>), FALSE, FALSE, FALSE, Str(<<>>))}
        \cup {Config("ok", kw, TRUE, Str(<<"k">>), FALSE, FALSE, FALSE, Str(<<>>)) :
                kw \in CatTaxonomies}

CatEnvs ==
    {Idle} \cup
    {Env(OkResp(PyList(<<ApiItem(t, Str(<<"u1">>), d, OkSource)>>)), Idle.search_resp,
         IdleCrawl, Idle.summarizer) :
       t \in CatTitles, d \in CatDescriptions}

InitCat ==
    \/ /\ cfg \in CatConfigs
       /\ env \in CatEnvs \cup {Again}
       /\ Asked(cfg, env)
       /\ Fresh
    \/ CronSession

SpecCat == InitCat /\ [][Next]_vars

(* Successive runs: few answers, every schedule of dates and disk conditions *)

MaxRuns == 2       \* invocations of main
MaxDays == 2       \* calendar days they fall on

Disks == {"ok", "mkdir_fails", "open_fails", "write_fails"}
Mails == {"ok", "send_fails", "no_config"}

\* the invocations of main, in the order of their dates
Schedules ==
    {r \in SeqsUpTo([today : 1..MaxDays, disk : Disks, mail : Mails], MaxRuns) :
       /\ r # <<>>
       /\ \A i \in 1..Len(r) : r[i].disk # "ok" => r[i].mail = "ok"
       /\ \A i \in 1..(Len(r) - 1) : r[i].today <= r[i + 1].today}

\* one article, one article whose source is null, and a network error
FileResponses ==
    {OkResp(PyList(<<ApiItem(Str(kx), Str(<<"u1">>), Str(<<>>), OkSource)>>)),
     OkResp(PyList(<<ApiItem(Str(kx), Str(<<"u2">>), Absent, NullSource)>>)),
     Failed("neterr")}

\* no configuration file, a taxonomy, and a taxonomy that is not a mapping
FileConfigs ==
    {Config("missing", Absent, FALSE, Str(<<>>), FALSE, FALSE, FALSE, Str(<<>>))}
        \cup {Config("ok", kw, TRUE, Str(<<"k">>), FALSE, FALSE, FALSE, Str(<<>>)) :
                kw \in {PyDict(TechSports), PyList(<<>>)}}

FileEnvs ==
    {[Env(h, Idle.search_resp, IdleCrawl, Idle.summarizer) EXCEPT !.runs = r] :
       h \in FileResponses, r \in Schedules}

InitRuns ==
    \/ /\ cfg \in FileConfigs
       /\ env \in FileEnvs
       /\ cfg.file # "ok" => env.headlines_resp = Idle.headlines_resp
       /\ Fresh
    \/ CronSession

SpecRuns == InitRuns /\ [][Next]_vars

-----------------------------------------------------------------------------
(* Properties of deduplication and categorization (data runs) *)

\* scrape_news has returned
Scraped == pc \in {"scraped", "done"}

\* the concatenation of the adapter outputs, API adapter first
Concat == ScrapeFromNewsapi.articles \o ScrapeFromNewspaper.articles

\* the position of the first record of seq with url u
FirstIndex(seq, u) ==
    CHOOSE i \in 1..Len(seq) : seq[i].url = u /\ \A j \in 1..(i - 1) : seq[j].url # u

\* the position of record r in seq
IndexOf(seq, r) == CHOOSE i \in 1..Len(seq) : seq[i] = r

UrlsOf(seq) == [i \in 1..Len(seq) |-> seq[i].url]

\* the number of positions of seq that hold r
Count(seq, r) == Cardinality({i \in 1..Len(seq) : seq[i] = r})

RECURSIVE SumCount(_, _)
SumCount(d, r) == IF d = <<>> THEN 0 ELSE Count(Head(d).val, r) + SumCount(Tail(d), r)

\* C1: for every non-empty url of the concatenated adapter outputs, the
\* deduplicated sequence holds exactly one record with that url, and it is the
\* first record with that url in concatenation order, with all its fields.
C1_FirstSeenWins ==
    Scraped =>
      LET all == Concat
      IN  \A i \in 1..Len(all) :
            Truthy(all[i].url) =>
              LET u    == all[i].url
                  hits == {j \in 1..Len(unique_articles) : unique_articles[j].url = u}
              IN  /\ Cardinality(hits) = 1
                  /\ \A j \in hits : unique_articles[j] = all[FirstIndex(all, u)]

\* adapters answer [u1, u2] and [u2, u3] with differing u2 records; the API copy is kept
C1_Witness ==
    /\ pc = "scraped"
    /\ UrlsOf(Concat) = <<Str(<<"u1">>), Str(<<"u2">>), Str(<<"u2">>), Str(<<"u3">>)>>
    /\ Concat[2].title # Concat[3].title
    /\ Concat[2].region = <<"NewsAPI", "us">>
    /\ Concat[3].region = <<"r1">>
    /\ unique_articles = <<Concat[1], Concat[2], Concat[4]>>

\* C2: every record of the deduplicated sequence is in exactly one category
\* list, once, and the lists hold no other record.
C2_Partition ==
    Scraped =>
      /\ \A i \in 1..Len(unique_articles) :
           SumCount(categorized_news, unique_articles[i]) = 1
      /\ \A c \in 1..Len(categorized_news) :
           Range(categorized_news[c].val) \subseteq Range(unique_articles)

\* three unique records spread over at least two categories
C2_Witness ==
    /\ pc = "scraped"
    /\ Len(unique_articles) = 3
    /\ Cardinality({c \in 1..Len(categorized_news) : categorized_news[c].val # <<>>}) >= 2

\* C8: no record with an empty or null url is in the deduplicated sequence or
\* in any category list.
C8_NoEmptyUrl ==
    Scraped =>
      /\ \A i \in 1..Len(unique_articles) : Truthy(unique_articles[i].url)
      /\ \A c \in 1..Len(categorized_news) :
           \A i \in 1..Len(categorized_news[c].val) :
             Truthy(categorized_news[c].val[i].url)

\* the adapters returned a record with an empty url and one with a null url
C8_Witness ==
    /\ pc = "scraped"
    /\ \E i \in 1..Len(Concat) : Concat[i].url = Str(<<>>)
    /\ \E i \in 1..Len(Concat) : Concat[i].url = PyNone
    /\ unique_articles # <<>>

\* C9: the deduplicated sequence lists records in the order of their first
\* occurrence in the concatenation, and each category list keeps that order.
C9_OrderPreserved ==
    Scraped =>
      /\ LET all == Concat
         IN  \A p, q \in 1..Len(unique_articles) :
               p < q => FirstIndex(all, unique_articles[p].url)
                          < FirstIndex(all, unique_articles[q].url)
      /\ \A c \in 1..Len(categorized_news) :
           LET l == categorized_news[c].val
           IN  \A p, q \in 1..Len(l) :
                 p < q => IndexOf(unique_articles, l[p]) < IndexOf(unique_articles, l[q])

\* a category list of two records whose first occurrences are separated by a duplicate
C9_Witness ==
    /\ pc = "scraped"
    /\ Len(Concat) > Len(unique_articles)
    /\ Len(unique_articles) >= 3
    /\ \E c \in 1..Len(categorized_news) : Len(categorized_news[c].val) >= 2

\* no two records of seq share a url
NoSharedUrl(seq) ==
    \A i, j \in 1..Len(seq) : i # j => seq[i].url # seq[j].url

\* C10 as stated: a sequence in which no two records share a url is returned
\* unchanged by deduplication.
C10_UniqueUnchanged ==
    (Scraped /\ NoSharedUrl(all_articles)) => unique_articles = all_articles

\* C10 amended: a sequence in which no two records share a url and every url
\* is non-empty is returned unchanged; deduplicating the output of a
\* deduplication returns that output.
C10_Idempotent ==
    Scraped =>
      /\ (NoSharedUrl(all_articles)
            /\ \A i \in 1..Len(all_articles) : Truthy(all_articles[i].url))
           => unique_articles = all_articles
      /\ Dedupe(unique_articles) = unique_articles

\* three records with pairwise different non-empty urls pass through unchanged
C10_Witness ==
    /\ pc = "scraped"
    /\ Len(all_articles) >= 3
    /\ NoSharedUrl(all_articles)
    /\ \A i \in 1..Len(all_articles) : Truthy(all_articles[i].url)
    /\ unique_articles = all_articles

-----------------------------------------------------------------------------
(* Properties of the categorizer (categorization runs) *)

CategoryNames == Range(DictKeys(keywords.v)) \cup {Fallback}

\* the positions of categorized_news whose list holds article a
AssignedTo(a) ==
    {c \in 1..Len(categorized_news) : a \in Range(categorized_news[c].val)}

\* a keyword of the i-th taxonomy category occurs, case-insensitively, in the text of a
Occurs(i, a) ==
    \E k \in 1..Len(keywords.v[i].val) :
      Contains(Lower(keywords.v[i].val[k]), Lower(ArticleText(a)))

\* C3: for every article, null or missing title and snippet included, the
\* categorizer returns one name, a taxonomy key or the fallback, the article
\* is filed under that one name, and categorization never raises.
C3_CategorizeTotal ==
    /\ pc = "failed" => raised_in = "_load_config"
    /\ Scraped =>
         \A n \in 1..Len(unique_articles) :
           LET a == unique_articles[n]
           IN  /\ CategorizeArticle(a) \in CategoryNames
               /\ \E c \in 1..Len(categorized_news) :
                    /\ categorized_news[c].name = CategorizeArticle(a)
                    /\ AssignedTo(a) = {c}

\* an article whose title and snippet are both null, under a taxonomy of three categories
C3_Witness ==
    /\ pc = "scraped"
    /\ Len(keywords.v) = 3
    /\ Len(unique_articles) = 1
    /\ unique_articles[1].title = PyNone
    /\ unique_articles[1].description = PyNone
    /\ CategorizeArticle(unique_articles[1]) \in CategoryNames

\* C4: when keywords of categories A and B both occur in the text and A
\* precedes B, the article is never filed under B; it is filed under A, and A
\* only, when A is the first category with an occurring keyword, however many
\* keywords of each occur.
C4_Priority ==
    Scraped =>
      \A n \in 1..Len(unique_articles) :
        LET a == unique_articles[n]
        IN  \A i, j \in 1..Len(keywords.v) :
              (i < j /\ Occurs(i, a) /\ Occurs(j, a)) =>
                /\ j \notin AssignedTo(a)
                /\ (\A h \in 1..(i - 1) : ~Occurs(h, a)) => AssignedTo(a) = {i}

\* one keyword of the first category and two of the second occur; the first wins
C4_Witness ==
    /\ pc = "scraped"
    /\ Len(keywords.v) >= 2
    /\ \E n \in 1..Len(unique_articles) :
         LET a == unique_articles[n]
         IN  /\ Len(keywords.v[1].val) = 1
             /\ Occurs(1, a)
             /\ Len(keywords.v[2].val) = 2
             /\ \A k \in 1..2 :
                  Contains(Lower(keywords.v[2].val[k]), Lower(ArticleText(a)))
             /\ AssignedTo(a) = {1}

-----------------------------------------------------------------------------
(* Properties of the orchestration (orchestration runs) *)

\* the headline answer of the provider is a failure or is malformed
HeadlinesFail ==
    LET r == env.headlines_resp
    IN  \/ r.kind # "dict"
        \/ r.status # "ok"
        \/ r.articles.t = "none"
        \/ r.articles.t = "list"
             /\ \E i \in 1..Len(r.articles.v) : r.articles.v[i].source.t = "none"

\* every call of the API adapter fails, or the adapter lacks its credential
ApiAdapterFails ==
    /\ cfg.file = "ok"
    /\ cfg.use_newsapi
    /\ Truthy(cfg.newsapi_key) =>
         /\ HeadlinesFail
         /\ cfg.newsapi_config.search_by_keywords => env.search_resp.kind # "dict"

\* C5: a fetch failure inside the API adapter never aborts the run: the
\* adapter raises nothing, contributes no record, and the report is built
\* from the crawl adapter's records alone.
C5_AdapterFailureIsolated ==
    (ApiAdapterFails /\ keywords.t = "dict" /\ pc \in {"scraped", "done", "failed"}) =>
      /\ raised_in # "scrape_from_newsapi"
      /\ Scraped => all_articles = ScrapeFromNewspaper.articles
      /\ pc = "done" => report.written /\ report.total = Len(unique_articles)

\* the summarizer is enabled and generate_markdown_report has been entered
SummarizerInvoked ==
    /\ use_deepseek /\ deepseek
    /\ categorized_news # <<>>
    /\ pc \in {"done", "failed"}

\* the invocation of the summarizer raises, or gives an empty summary
SummaryFailsOrEmpty ==
    LET s == GenerateDailySummary(categorized_news)
    IN  s.raised # "none" \/ s.summary = <<>>

\* C6: when the summarizer is enabled and its invocation fails or returns an
\* empty value, the run still writes the report and succeeds, and the report
\* has no summary section.
C6_SummarizerNonFatal ==
    (SummarizerInvoked /\ SummaryFailsOrEmpty) =>
      /\ pc = "done"
      /\ report.written
      /\ report.summary = <<>>

\* the configuration lacks a well-formed taxonomy or a credential of an enabled adapter
ConfigError ==
    \/ cfg.file # "ok"
    \/ cfg.keywords.t \in {"absent", "list"}
    \/ cfg.use_newsapi /\ ~Truthy(cfg.newsapi_key)

ItemFailure ==
    \/ raised_in = "scrape_from_newsapi" /\ keywords.t = "dict"
    \/ raised_in = "_prepare_news_text"

\* C17: a run ends with one of two outcomes for its caller: the path of a
\* report file that this run wrote, or a failure carrying the fatal error;
\* the failure of a single source or item never shows up in that outcome.
C17_FatalOutcomeOnly ==
    /\ pc = "done" =>
         /\ outcomes[run] = Success(FileName(Today))
         /\ WholeFile(FileName(Today), report) \in files
    /\ pc = "failed" =>
         /\ outcomes[run] = Failure(error)
         /\ ~ItemFailure

Digits == {"0", "1", "2", "3", "4", "5", "6", "7", "8", "9"}

\* the string has the shape YYYY-MM-DD
IsDate(v) ==
    /\ Len(v) = DateLen
    /\ \A i \in 1..DateLen : IF i \in {5, 8} THEN v[i] = "-" ELSE v[i] \in Digits

\* C19: every record the adapters produce carries a publish date that is a
\* string of the shape YYYY-MM-DD or the sentinel for an unknown date, never
\* null, absent or empty, whatever date value the provider returned.
C19_DateNormalized ==
    Scraped =>
      \A i \in 1..Len(all_articles) :
        LET d == all_articles[i].publish_date
        IN  /\ d.t = "str"
            /\ IsDate(d.v) \/ d.v = UnknownDate

-----------------------------------------------------------------------------
(* Properties of the report (orchestration runs) *)

\* the summarizer is configured and enabled, was asked, and answered with text
\* that is not blank
SummarySupplied ==
    /\ cfg.use_deepseek
    /\ Truthy(cfg.deepseek_api_key)
    /\ env.libs.openai
    /\ summary_calls = 1
    /\ env.summarizer.kind = "ok"
    /\ Strip(env.summarizer.content) # <<>>

\* C11: the report holds the summary section if and only if a summarizer is
\* configured and enabled and supplied a non-empty summary for this run; the
\* section then shows that summary, and otherwise no summary heading or text
\* is emitted.
C11_SummaryIffSupplied ==
    pc = "done" =>
      report.summary = IF SummarySupplied THEN <<Strip(env.summarizer.content)>> ELSE <<>>

\* a report whose summary section shows the text the summarizer answered
C11_Witness ==
    /\ pc = "done"
    /\ SummarySupplied
    /\ report.summary = <<<<"s">>>>

-----------------------------------------------------------------------------
(* Properties of the returned mapping (categorization runs) *)

\* the records of seq that the categorizer files under name
FiledUnder(seq, name) == SelectSeq(seq, LAMBDA a : CategorizeArticle(a) = name)

\* C12 as stated: after scrape_news every taxonomy category is a key of the
\* returned mapping, and the mapping has exactly one further key, the
\* fallback, distinct from all taxonomy keys.
C12_OneFurtherKey ==
    Scraped =>
      /\ \A i \in 1..Len(keywords.v) : HasKey(categorized_news, keywords.v[i].name)
      /\ Len(categorized_news) = Len(keywords.v) + 1
      /\ HasKey(categorized_news, Fallback)
      /\ ~HasKey(keywords.v, Fallback)

\* C12 amended: the keys of the returned mapping are the taxonomy keys in
\* taxonomy order, followed by the fallback name unless a taxonomy category
\* bears that name, in which case there is no further key; each key holds the
\* records filed under it, the empty list when there is none.
C12_KeySet ==
    Scraped =>
      /\ DictKeys(categorized_news)
            = DictKeys(keywords.v)
                \o (IF HasKey(keywords.v, Fallback) THEN <<>> ELSE <<Fallback>>)
      /\ \A c \in 1..Len(categorized_news) :
           categorized_news[c].val
             = FiledUnder(unique_articles, categorized_news[c].name)

\* a taxonomy of three categories none of which matched: four keys, the
\* taxonomy lists empty and the article under the fallback
C12_Witness ==
    /\ pc = "scraped"
    /\ DictKeys(keywords.v) = <<"A", "B", "C">>
    /\ DictKeys(categorized_news) = <<"A", "B", "C", Fallback>>
    /\ \A c \in 1..3 : categorized_news[c].val = <<>>
    /\ Len(categorized_news[4].val) = 1

\* C18: no record of the deduplicated sequence, of a category list or of the
\* report has an empty or null title, whatever the provider answered.
C18_NoEmptyTitle ==
    /\ Scraped =>
         /\ \A i \in 1..Len(unique_articles) : Truthy(unique_articles[i].title)
         /\ \A c \in 1..Len(categorized_news) :
              \A i \in 1..Len(categorized_news[c].val) :
                Truthy(categorized_news[c].val[i].title)
    /\ pc = "done" =>
         \A c \in 1..Len(report.sections) :
           \A i \in 1..Len(report.sections[c].articles) :
             report.sections[c].articles[i].title # <<>>

-----------------------------------------------------------------------------
(* Properties of the output directory (successive runs) *)

\* the date a report file name embeds
DateOf(name) == name[2]

\* the runs that returned a report path
Returned == {i \in 1..Len(outcomes) : outcomes[i].kind = "path"}

\* C13: the report file name is a function of the run date only, so runs on
\* the same date return the same path; after a run has written its report the
\* file of that path holds that run's report and nothing else; the output
\* directory never holds two report files for one date.
C13_OneReportPerDay ==
    /\ \A i, j \in Returned :
         (outcomes[i].today = outcomes[j].today) <=> (outcomes[i].path = outcomes[j].path)
    /\ pc = "done" =>
         {f \in files : f.name = outcomes[run].path}
           = {[name |-> outcomes[run].path, whole |-> TRUE, by |-> run, content |-> report]}
    /\ \A f, g \in files : DateOf(f.name) = DateOf(g.name) => f = g

\* the second of two runs on one date has replaced the report of the first
C13_Witness ==
    /\ pc = "done"
    /\ run = 2
    /\ Returned = {1, 2}
    /\ outcomes[1].today = outcomes[2].today
    /\ outcomes[1].path = outcomes[2].path
    /\ report.total = 1
    /\ Cardinality(files) = 1
    /\ \A f \in files : f.by = 2 /\ f.content = report

\* the write of the report file has failed in this run
WriteFailed == pc = "failed" /\ raised_in = "generate_markdown_report"

\* C14: when writing the report file fails, the caller is given the error and
\* no partial report is left in place: the report path of the run does not
\* hold an empty or truncated file, and the files of other dates are those
\* that earlier runs wrote.
C14_NoPartialReport ==
    WriteFailed =>
      /\ outcomes[run] = Failure(error)
      /\ error # "none"
      /\ \A f \in files :
           IF f.name = FileName(Today) THEN f.whole
           ELSE f.by < run /\ DateOf(f.name) = outcomes[f.by].today

\* an exception has left the fetch stage or the categorize stage of this run
ScrapeRaised == raised_in \in {"scrape_from_newsapi", "scrape_news"}

\* C15: a run in which the fetch stage or the categorize stage raises ends in
\* failure: the caller of run is given the error, and the run creates or
\* overwrites no report file, the write step not being reached.
C15_ScrapeErrorWritesNothing ==
    ScrapeRaised =>
      /\ pc = "failed"
      /\ error # "none"
      /\ outcomes[run] = Failure(error)
      /\ report = NoReport
      /\ \A f \in files : f.by # run

\* the categorize stage has raised on a taxonomy that is not a mapping, after
\* the fetches were made
C15_Witness ==
    /\ pc = "failed"
    /\ raised_in = "scrape_news"
    /\ error = "AttributeError"
    /\ fetch_log # <<>>
    /\ outcomes = <<Failure("AttributeError")>>
    /\ files = {}

-----------------------------------------------------------------------------
(* Properties of the adapter order (data runs) *)

\* the record was built by the API adapter
FromApi(a) == a.region[1] = "NewsAPI"

\* C16: every call of the API adapter is issued before the first call of the
\* crawl adapter, the concatenated sequence holds every API record before
\* every crawl record, and of an API record and a crawl record with the same
\* url the API record is the one kept.
C16_ApiBeforeCrawl ==
    /\ \A i, j \in 1..Len(fetch_log) :
         (fetch_log[i] = "crawl" /\ fetch_log[j] # "crawl") => j < i
    /\ Scraped =>
         \A i, j \in 1..Len(all_articles) :
           (FromApi(all_articles[i]) /\ ~FromApi(all_articles[j])) =>
             /\ i < j
             /\ (all_articles[i].url = all_articles[j].url) =>
                  \A k \in 1..Len(unique_articles) :
                    unique_articles[k].url = all_articles[i].url
                      => FromApi(unique_articles[k])

\* both adapters were asked, in that order, and both returned a record of the
\* same url; the record kept is the API adapter's
C16_Witness ==
    /\ pc = "scraped"
    /\ fetch_log = <<"headlines", "crawl">>
    /\ \E i, j \in 1..Len(all_articles) :
         /\ FromApi(all_articles[i]) /\ ~FromApi(all_articles[j])
         /\ all_articles[i].url = all_articles[j].url
         /\ all_articles[i].title # all_articles[j].title
         /\ all_articles[i] \in Range(unique_articles)
         /\ all_articles[j] \notin Range(unique_articles)

-----------------------------------------------------------------------------
(* Properties of the statistics section (data runs) *)

RECURSIVE SumCounts(_)
SumCounts(lines) == IF lines = <<>> THEN 0 ELSE Head(lines).count + SumCounts(Tail(lines))

\* the count lines of the statistics section that name category c
StatLines(c) == {i \in 1..Len(report.stats) : report.stats[i].category = c}

\* C20: the total of the statistics section is the number of records of the
\* deduplicated sequence; a category has a count line if and only if its
\* list is not empty, one line, showing the length of the list; the counts
\* shown sum to the total.
C20_Statistics ==
    pc = "done" =>
      /\ report.total = Len(unique_articles)
      /\ \A c \in 1..Len(categorized_news) :
           LET l == categorized_news[c]
           IN  IF l.val = <<>> THEN StatLines(l.name) = {}
               ELSE /\ Cardinality(StatLines(l.name)) = 1
                    /\ \A i \in StatLines(l.name) : report.stats[i].count = Len(l.val)
      /\ \A i \in 1..Len(report.stats) : HasKey(categorized_news, report.stats[i].category)
      /\ SumCounts(report.stats) = report.total

\* three records in two categories, a third category empty: two count lines
C20_Witness ==
    /\ pc = "done"
    /\ Len(categorized_news) = 3
    /\ report.total = 3
    /\ Len(report.stats) = 2
    /\ \E c \in 1..3 : categorized_news[c].val = <<>>
    /\ \E i \in 1..2 : report.stats[i].count = 2

-----------------------------------------------------------------------------
(* Properties of the report sections (data runs) *)

\* the category names in the order of the returned mapping
KeyOrder ==
    DictKeys(keywords.v) \o (IF HasKey(keywords.v, Fallback) THEN <<>> ELSE <<Fallback>>)

SectionNames == [i \in 1..Len(report.sections) |-> report.sections[i].category]

\* C21 as stated: for every taxonomy the sections appear in taxonomy order
\* with the section of the fallback category last.
C21_FallbackLast ==
    pc = "done" =>
      \A i \in 1..Len(report.sections) :
        report.sections[i].category = Fallback => i = Len(report.sections)

\* C21 amended: the sections are those of the non-empty categories, in
\* taxonomy order, the fallback section last unless a taxonomy category bears
\* the fallback name, whose section then stays at its taxonomy position; each
\* section lists the records filed under it, numbered from one, in the order
\* of the deduplicated sequence.
C21_SectionOrder ==
    pc = "done" =>
      /\ SectionNames
           = SelectSeq(KeyOrder, LAMBDA n : FiledUnder(unique_articles, n) # <<>>)
      /\ \A i \in 1..Len(report.sections) :
           LET filed == FiledUnder(unique_articles, report.sections[i].category)
           IN  report.sections[i].articles
                 = [j \in 1..Len(filed) |-> RenderArticle(filed[j])]

\* two taxonomy sections, the first with two records of different urls
C21_Witness ==
    /\ pc = "done"
    /\ DictKeys(keywords.v) = <<"Tech", "Sports">>
    /\ SectionNames = <<"Tech", "Sports">>
    /\ Len(report.sections[1].articles) = 2
    /\ report.sections[1].articles[1].url # report.sections[1].articles[2].url
    /\ report.sections[1].articles[1].url = Format(unique_articles[1].url)

-----------------------------------------------------------------------------
(* Digest runs: one answer of up to MaxDigestItems articles, summarizer on *)

MaxDigestItems == 12   \* articles of the answer

\* the characters that tell the articles of an answer apart
Ch == <<"0", "1", "2", "3", "4", "5", "6", "7", "8", "9", "a", "b", "c", "d">>

\* The i-th article of an answer of the given shape.  "tech": every title
\* holds the keyword of the first category.  "mixed": every second title
\* holds no keyword.  "blank": as "tech", the first title being blank and the
\* keyword standing in the description.
DigestItem(shape, i) ==
    IF shape = "blank" /\ i = 1
    THEN ApiItem(Str(<<" ">>), Str(<<"u", Ch[i]>>), Str(kx), OkSource)
    ELSE IF shape = "mixed" /\ i % 2 = 0
    THEN ApiItem(Str(<<"q", Ch[i]>>), Str(<<"u", Ch[i]>>), Str(<<>>), OkSource)
    ELSE ApiItem(Str(<<"x", Ch[i]>>), Str(<<"u", Ch[i]>>), Str(<<>>), OkSource)

DigestResponses ==
    {OkResp(PyList([i \in 1..n |-> DigestItem(shape, i)])) :
       n \in 0..MaxDigestItems, shape \in {"tech", "mixed", "blank"}}

DigestConfigs ==
    {Config("missing", Absent, FALSE, Str(<<>>), FALSE, FALSE, FALSE, Str(<<>>)),
     Config("ok", PyDict(TechSports), TRUE, Str(<<"k">>), FALSE, FALSE, TRUE, Str(<<"k">>))}

DigestEnvs ==
    {Idle, Again} \cup
    {Env(h, Idle.search_resp, IdleCrawl, sm) :
       h \in DigestResponses, sm \in {[kind |-> "ok", content |-> <<"s">>], NoSummarizer}}

InitDigest ==
    \/ /\ cfg \in DigestConfigs
       /\ env \in DigestEnvs
       /\ cfg.file # "ok" => env \in {Idle, Again}
       /\ cfg.file = "ok" => env.runs = OneRun
       /\ Fresh
    \/ CronSession

SpecDigest == InitDigest /\ [][Next]_vars

\* the digest handed to the summarizer in this run
Digest == PrepareNewsText(categorized_news).parts

\* the titles the digest gives for the category of that name, none when the
\* digest leaves the category out
DigestOf(name) ==
    IF \E i \in 1..Len(Digest) : Digest[i].category = name
    THEN Digest[CHOOSE i \in 1..Len(Digest) : Digest[i].category = name].titles
    ELSE <<>>

\* the titles of the first (at most ten) records of a list, in list order
FirstTitles(l) == [k \in 1..(IF Len(l) < 10 THEN Len(l) ELSE 10) |-> l[k].title.v]

\* the summarizer was sent a digest in this run
DigestSent == pc = "done" /\ summary_calls = 1

\* C22 as stated: the digest maps each category of the returned mapping to
\* the titles of the first records of its list, at most ten.
C22_EveryCategoryCapped ==
    DigestSent =>
      \A c \in 1..Len(categorized_news) :
        DigestOf(categorized_news[c].name) = FirstTitles(categorized_news[c].val)

\* C22 amended: the digest has one entry for each non-empty category other
\* than the fallback, in mapping order; the entry lists the stripped titles
\* of the first ten records of the category's list, in list order, leaving
\* out titles that are blank; no entry has an eleventh title.
C22_DigestCap ==
    DigestSent =>
      /\ [i \in 1..Len(Digest) |-> Digest[i].category]
           = DictKeys(SelectSeq(categorized_news,
                                LAMBDA e : e.val # <<>> /\ e.name # Fallback))
      /\ \A i \in 1..Len(Digest) :
           LET l == Lookup(categorized_news, Digest[i].category)
           IN  /\ Len(Digest[i].titles) <= 10
               /\ Digest[i].titles
                    = SelectSeq([k \in 1..Len(FirstTitles(l)) |-> Strip(FirstTitles(l)[k])],
                                LAMBDA t : t # <<>>)

\* twelve records under the first category: the digest holds the titles of
\* the first ten
C22_Witness ==
    /\ DigestSent
    /\ Len(categorized_news[1].val) = 12
    /\ Len(Digest) = 1
    /\ Len(Digest[1].titles) = 10
    /\ Digest[1].titles[10] = categorized_news[1].val[10].title.v
    /\ Digest[1].titles[1] = <<"x", "0">>

-----------------------------------------------------------------------------
(* Properties of the matching (categorization runs) *)

\* the text of title and snippet in which an empty, missing or null snippet
\* contributes nothing
TitleAndSnippet(a) ==
    Format(Get(a.title, Str(<<>>))) \o <<" ">>
        \o (IF a.description.t = "str" THEN a.description.v ELSE <<>>)

\* a keyword of the i-th taxonomy category occurs, case-insensitively, in text
OccursIn(i, text) ==
    \E k \in 1..Len(keywords.v[i].val) :
      Contains(Lower(keywords.v[i].val[k]), Lower(text))

\* C23: _categorize_article returns the fallback category when no keyword of
\* any taxonomy category occurs, case-insensitively, in the text of title and
\* snippet, a null snippet contributing no text, and otherwise the first
\* category in taxonomy order that has such a keyword.
C23_MatchingSemantics ==
    Scraped =>
      \A n \in 1..Len(unique_articles) :
        LET a    == unique_articles[n]
            text == TitleAndSnippet(a)
            hits == {i \in 1..Len(keywords.v) : OccursIn(i, text)}
        IN  CategorizeArticle(a)
              = IF hits = {} THEN Fallback
                ELSE keywords.v[CHOOSE i \in hits : \A j \in hits : i <= j].name

-----------------------------------------------------------------------------
(* Crawl runs: two news sources of up to MaxCrawlItems articles each *)

MaxCrawlItems == 3   \* articles a source lists

\* {"r1": ["s1"], "r2": ["s2"]}
TwoSources == <<Entry("r1", <<"s1">>), Entry("r2", <<"s2">>)>>

\* the articles a source lists: the i-th downloads and parses iff oks[i]
CrawlItems(source_url, oks) ==
    [i \in 1..Len(oks) |-> CrawlItem(oks[i], kx, <<source_url, Ch[i]>>)]

CrawlScripts(source_url) ==
    {[build_ok |-> b, items |-> CrawlItems(source_url, oks)] :
       b \in BOOLEAN, oks \in SeqsUpTo(BOOLEAN, MaxCrawlItems)}

CrawlConfigs ==
    {Config("missing", Absent, FALSE, Str(<<>>), FALSE, FALSE, FALSE, Str(<<>>)),
     [Config("ok", PyDict(TechSports), FALSE, Str(<<>>), FALSE, TRUE, FALSE, Str(<<>>))
        EXCEPT !.news_sources = TwoSources]}

CrawlEnvs ==
    {Idle, Again} \cup
    {[Idle EXCEPT !.crawl = [x \in {"s1", "s2"} |-> IF x = "s1" THEN c1 ELSE c2]] :
       c1 \in CrawlScripts("s1"), c2 \in CrawlScripts("s2")}

InitCrawl ==
    \/ /\ cfg \in CrawlConfigs
       /\ env \in CrawlEnvs
       /\ cfg.file = "ok" <=> env \notin {Idle, Again}
       /\ Fresh
    \/ CronSession

SpecCrawl == InitCrawl /\ [][Next]_vars

\* the articles of all configured sources that the crawl adapter has to
\* return: [source, i] for the i-th article of a source that was built, when
\* its download and parse succeed
Succeeded ==
    {p \in {"s1", "s2"} \X (1..(MaxCrawlItems + 1)) :
       /\ env.crawl[p[1]].build_ok
       /\ p[2] <= Len(env.crawl[p[1]].items)
       /\ env.crawl[p[1]].items[p[2]].ok}

\* discovery order: sources in configuration order, articles as listed
Before(p, q) == (p[1] = "s1" /\ q[1] = "s2") \/ (p[1] = q[1] /\ p[2] < q[2])

\* the positions of all_articles holding the record of that article
RecordsOf(p) ==
    {k \in 1..Len(all_articles) :
       /\ all_articles[k].url = Str(env.crawl[p[1]].items[p[2]].url)
       /\ all_articles[k].source = Str(<<p[1]>>)}

\* C24: the crawl adapter returns, in discovery order, the record of every
\* article that downloaded and parsed in a source that could be built, and
\* nothing else: a failing article drops only itself, a source that cannot be
\* built drops only its own articles, and every configured source is asked.
C24_PerItemRecovery ==
    (Scraped /\ DOMAIN env.crawl = {"s1", "s2"}) =>
      /\ fetch_log = <<"crawl", "crawl">>
      /\ Len(all_articles) = Cardinality(Succeeded)
      /\ \A p \in Succeeded : Cardinality(RecordsOf(p)) = 1
      /\ \A p, q \in Succeeded :
           Before(p, q) => \A k \in RecordsOf(p), l \in RecordsOf(q) : k < l

\* the first source cannot be built; in the second the middle one of three
\* articles fails, and the first and the third are returned
C24_Witness ==
    /\ pc = "scraped"
    /\ DOMAIN env.crawl = {"s1", "s2"}
    /\ ~env.crawl["s1"].build_ok
    /\ Len(env.crawl["s1"].items) = 3
    /\ Succeeded = {<<"s2", 1>>, <<"s2", 3>>}
    /\ Len(all_articles) = 2
    /\ all_articles[1].url = Str(<<"s2", "0">>)
    /\ all_articles[2].url = Str(<<"s2", "2">>)

-----------------------------------------------------------------------------
(* Properties of the records (digest runs) *)

\* C25: deduplication, categorization, digest preparation and report
\* assembly leave the records as the adapters returned them: every record of
\* the deduplicated sequence and of the returned mapping is, field for field,
\* a record of the adapter output, also after the report has been written,
\* and the report shows the url of the record.
C25_RecordsUnchanged ==
    Scraped =>
      LET returned == Concat
      IN  /\ all_articles = returned
          /\ Range(unique_articles) \subseteq Range(returned)
          /\ \A c \in 1..Len(categorized_news) :
               Range(categorized_news[c].val) \subseteq Range(returned)
          /\ pc = "done" =>
               \A i \in 1..Len(report.sections) :
                 LET l == Lookup(categorized_news, report.sections[i].category)
                 IN  \A j \in 1..Len(l) :
                       report.sections[i].articles[j].url = l[j].url.v

\* twelve records, one with a blank title and a description, have been
\* through the digest and the report
C25_Witness ==
    /\ pc = "done"
    /\ summary_calls = 1
    /\ Len(unique_articles) = 12
    /\ unique_articles[1].title = Str(<<" ">>)
    /\ categorized_news[1].val[1].description = Str(kx)
    /\ Len(categorized_news[1].val) = 12

-----------------------------------------------------------------------------
(* Properties of the provenance line (orchestration runs) *)

\* the sources whose collaborator object was built in this run
SourcesInitialized ==
    (IF newsapi THEN <<"NewsAPI">> ELSE <<>>)
        \o (IF newspaper THEN <<"Newspaper3k">> ELSE <<>>)
        \o (IF deepseek THEN <<"DeepSeek">> ELSE <<>>)

\* C26: the provenance line of the report names exactly the sources whose
\* collaborator was initialized in the run, also when an enable flag is set
\* and the credential is empty.
C26_ProvenanceUsable ==
    pc = "done" => report.sources_used = SourcesInitialized

-----------------------------------------------------------------------------
(* Properties of repeated invocations (data runs) *)

\* the non-empty urls of a sequence of records
UrlSet(seq) == {seq[i].url : i \in {j \in 1..Len(seq) : Truthy(seq[j].url)}}

\* the urls an earlier result holds
EarlierUrls ==
    UNION {UrlSet(earlier[c].val) : c \in 1..Len(earlier)}

\* C27: a later invocation of scrape_news on the same instance starts from
\* an empty result and an empty set of seen urls: what it returns is what a
\* new instance returns for the same adapter output, and a url that only an
\* earlier invocation saw is neither seen nor returned.
C27_Stateless ==
    (Scraped /\ scrapes >= 2) =>
      LET returned == Concat
      IN  /\ all_articles = returned
          /\ unique_articles = Dedupe(returned)
          /\ seen_urls = UrlSet(returned)
          /\ categorized_news = CategorizeLoop(Dedupe(returned), EmptyCategories)
          /\ \A u \in EarlierUrls \ UrlSet(returned) :
               u \notin seen_urls /\ u \notin UrlSet(unique_articles)

\* the second invocation returns records the first returned too, and lacks
\* the url that the provider no longer lists
C27_Witness ==
    /\ pc = "scraped"
    /\ scrapes = 2
    /\ earlier # categorized_news
    /\ Str(<<"u1">>) \in EarlierUrls \ seen_urls
    /\ Str(<<"u2">>) \in EarlierUrls \cap seen_urls
    /\ Len(unique_articles) = 2

-----------------------------------------------------------------------------
(* Properties of the daily task (runs over files) *)

\* the report file of the current run is complete on disk
ReportOnDisk ==
    \E f \in files : f.name = FileName(Today) /\ f.whole /\ f.by = run

\* C28: the daily task hands the sender a path only after the scraper run has
\* returned one, and it is that path; when the scraper run failed nothing is
\* handed to the sender and the status is 1; the status is 0 only when the
\* report was generated.
C28_MailAfterReport ==
    /\ sent # <<>> =>
         /\ pc = "done"
         /\ outcomes[Len(outcomes)].kind = "path"
         /\ sent = <<outcomes[Len(outcomes)].path>>
         /\ ReportOnDisk
    /\ (pc = "failed" /\ exit_code # <<>>) => (sent = <<>> /\ exit_code = <<1>>)
    /\ exit_code = <<0>> => (pc = "done" /\ report # NoReport /\ ReportOnDisk)

\* the second run of the task: the first one failed on the disk and sent
\* nothing, this one produced the report and the sender was given its path
C28_Witness ==
    /\ run = 2
    /\ outcomes[1].kind = "failure"
    /\ pc = "done"
    /\ sent = <<FileName(Today)>>
    /\ exit_code = <<1>>

-----------------------------------------------------------------------------
(* Properties of the task manager (manager sessions) *)

\* the number of jobs that carry the project's comment
TaskCount(jobs) == Cardinality({i \in 1..Len(jobs) : jobs[i].comment = TaskComment})

\* the job add_task writes
InstalledJob == [NewJob EXCEPT !.slices = DailySlices]

\* C29: whenever add_task returns False the crontab on disk is what it was
\* before the call, forced calls whose later steps fail included.
C29_AllOrNothing ==
    (last_call.op = "add_task" /\ ~last_call.returned) => crontab = last_call.before

\* C30: the crontab, on disk and in memory, never holds more than one job
\* with the project's comment; add_task without force on an existing task
\* returns False and changes nothing; a successful add_task with force on an
\* existing task leaves the new job in place of the old one and every other
\* job as it was.
C30_AtMostOneTask ==
    /\ TaskCount(crontab) <= 1
    /\ TaskCount(cron) <= 1
    /\ (last_call.op = "add_task" /\ TaskExists(last_call.held, TaskComment)) =>
         IF ~last_call.force
         THEN ~last_call.returned /\ cron = last_call.held /\ crontab = last_call.before
         ELSE last_call.returned =>
                /\ TaskCount(crontab) = 1
                /\ \A i \in 1..Len(crontab) :
                     crontab[i].comment = TaskComment => crontab[i] = InstalledJob
                /\ Without(crontab, TaskComment) = Without(last_call.held, TaskComment)

\* a forced add_task has replaced the disabled job of an earlier installation,
\* after another call, next to the job of another program
C30_Witness ==
    /\ pc = "cron"
    /\ cron_calls >= 2
    /\ last_call.op = "add_task" /\ last_call.force /\ last_call.returned
    /\ last_call.before = <<OldJob(FALSE), OtherJob>>
    /\ crontab = <<OtherJob, InstalledJob>>

=============================================================================
